---------------------------- MODULE Spec2Model ----------------------------
(***************************************************************************)
(* Model of src/app/main.py: a FastAPI read-through proxy that resolves a  *)
(* configured team to ESPN data and caches the payload for one hour.       *)
(*                                                                         *)
(* State: which configuration file was loaded (config, an index into the   *)
(* configurations considered, ConfigFiles), the module-level cache dict    *)
(* (cache), the wall clock read by time.time() (clock) and a record of the *)
(* last request served (last: the request, its response, and its calls of  *)
(* get_cached_team_data: what each found in the cache and what it sent to  *)
(* the provider).  Two history variables follow the cache: origin maps     *)
(* each cached key to the call whose fetch stored the entry, and failed is *)
(* the set of keys whose latest call ended with a failed fetch.            *)
(*                                                                         *)
(* Spec serves each request in one step.  ConcSpec runs the statements of  *)
(* get_cached_team_data one at a time in two threads: callers holds the    *)
(* locals of each thread and writer tells, for each key, the thread that   *)
(* stored its entry.  Both are constant under Spec.                        *)
(*                                                                         *)
(* Python values: None is the empty tuple and any other scalar v is <<v>>, *)
(* so that None can be compared with strings and with integers.  A dict is *)
(* a function on its keys; d.get(k) is Get(d, k).  A key whose YAML value  *)
(* is null behaves like an absent key under .get, so it is modelled absent.*)
(* JSON payloads are tagged: [obj |-> f], [list |-> s], [str |-> x],       *)
(* [null |-> TRUE] (json null is Python None).                             *)
(***************************************************************************)
EXTENDS Integers, Sequences, FiniteSets, TLC

VARIABLES config, cache, clock, last, origin, failed, callers, writer

vars == <<config, cache, clock, last, origin, failed, callers, writer>>

-----------------------------------------------------------------------------
(* Python scalars *)

None == <<>>

Some(v) == <<v>>

\* d.get(k)
Get(d, k) == IF k \in DOMAIN d THEN Some(d[k]) ELSE None

\* `not x` for a str-or-None value
NotStr(x) == x = None \/ x[1] = ""

\* NotInt that takes only None for a missing id
NotInt_none_only(x) == x = None

\* `not x` for an int-or-None value
NotInt(x) == x = None \/ x[1] = 0

\* f"{x}" for a str-or-None value
FmtStr(x) == IF x = None THEN "None" ELSE x[1]

\* f"{x}" for an int-or-None value
FmtInt(x) == IF x = None THEN "None" ELSE ToString(x[1])

\* `a or b` for str-or-None values
OrStr(a, b) == IF NotStr(a) THEN b ELSE a

-----------------------------------------------------------------------------
(* JSON payloads *)

JNull == [null |-> TRUE]

JStr(s) == [str |-> s]

JObj(f) == [obj |-> f]

JList(s) == [list |-> s]

IsObj(j) == "obj" \in DOMAIN j

IsList(j) == "list" \in DOMAIN j

\* {}: an upstream 200 with no meaningful field
P_empty == JObj(<<>>)

\* {"team": {}}
P_bare == JObj([team |-> JObj(<<>>)])

\* {"team": {"logos": [{"href": "ars.png"}], "nextEvent": [{"id": "401"}]}}
P_full == JObj([team |-> JObj([logos |-> JList(<<JObj([href |-> JStr("ars.png")])>>),
                               nextEvent |-> JList(<<JObj([id |-> JStr("401")])>>)])])

\* {"team": null}
P_null == JObj([team |-> JNull])

Payloads == {P_empty, P_bare, P_full, P_null}

\* What the provider does with one request: a failure (timeout, non-2xx,
\* connection error) or a 2xx with a JSON body.
UpFail == [ok |-> FALSE, json |-> JNull]

Upstream == {UpFail} \cup {[ok |-> TRUE, json |-> p] : p \in Payloads}

-----------------------------------------------------------------------------
(* Outcomes of a call: a returned value or a raised exception *)

Return(v) == [raised |-> FALSE, status_code |-> 200, value |-> v]

\* raise HTTPException(status_code=code, detail=detail)
HTTPException(code, detail) ==
    [raised |-> TRUE, status_code |-> code, value |-> [detail |-> detail]]

\* An exception that is no HTTPException and that no handler catches: the
\* framework answers 500 Internal Server Error.
Unhandled(what) ==
    [raised |-> TRUE, status_code |-> 500, value |-> [error |-> what]]

-----------------------------------------------------------------------------
(* config.yaml, as loaded at startup: the leagues list and the teams mapping *)
(* (a dict keeps insertion order, so the teams are a sequence of team_info)  *)

\* leagues: epl has only the generic sport, nfl has both fields, xfl has
\* neither, epl:u21 has a ':' in its name, and nba has only the sport path.
Leagues ==
    << [league |-> "epl", sport |-> "soccer"],
       [league |-> "nfl", sport_path |-> "football", sport |-> "gridiron"],
       [league |-> "xfl"],
       [league |-> "epl:u21", sport |-> "soccer"],
       [league |-> "nba", sport_path |-> "basketball"] >>

Team(name, slug, league, id) ==
    [name |-> name, espn_slug |-> slug, league |-> league, espn_id |-> id]

\* a team_info without espn_id
TeamNoId(name, slug, league) ==
    [name |-> name, espn_slug |-> slug, league |-> league]

\* a team_info without league
TeamNoLeague(name, slug, id) ==
    [name |-> name, espn_slug |-> slug, espn_id |-> id]

ConfigFiles ==
    << \* a provider id of zero, and leagues whose sport path is not found
      [leagues |-> Leagues,
       teams |-> << Team("Liverpool", "liv", "epl", 0),
                    Team("Defenders", "dc", "xfl", 5),
                    Team("Galaxy", "la", "mls", 187) >>],
      \* league and slug with a ':' in them
      [leagues |-> Leagues,
       teams |-> << Team("Arsenal U21", "ars", "epl:u21", 1),
                    Team("Arsenal", "u21:ars", "epl", 359) >>],
      \* the same slug in two leagues, the first without provider id
      [leagues |-> Leagues,
       teams |-> << TeamNoId("Cardinals", "ari", "epl"),
                    Team("Cardinals", "ari", "nfl", 22) >>],
      \* the same slug twice, the first without league
      [leagues |-> Leagues,
       teams |-> << TeamNoLeague("Arsenal", "ars", 359),
                    Team("Arsenal", "ars", "epl", 359) >>],
      \* the same slug in two leagues, both resolvable
      [leagues |-> Leagues,
       teams |-> << Team("Giants", "nyg", "nfl", 19),
                    Team("Giants", "nyg", "epl", 44) >>],
      \* the same league and slug under two team keys, one without provider id
      [leagues |-> Leagues,
       teams |-> << Team("Arsenal", "ars", "epl", 359),
                    TeamNoId("Arsenal B", "ars", "epl") >>] >>

\* yaml.safe_load(f): the configuration the process was started with
Loaded == ConfigFiles[config]

\* config.get("teams", {}).items(), in order
Teams == Loaded.teams

\* config.get("leagues", [])
ConfigLeagues == Loaded.leagues

\* Path parameters a client may send: every slug and league of the
\* configuration, and one of each that is not configured.
Slugs == {Teams[i].espn_slug : i \in DOMAIN Teams} \cup {"zzz"}

LeagueSlugs ==
    {Teams[i].league : i \in {j \in DOMAIN Teams : "league" \in DOMAIN Teams[j]}}
        \cup {"zzz"}

-----------------------------------------------------------------------------
(* The cache: {key: (timestamp, data)} *)

CACHE_EXPIRATION == 60 * 60

\* key = f"{league_slug}:{team_slug}"
CacheKey(league_slug, team_slug) == FmtStr(league_slug) \o ":" \o FmtStr(team_slug)

\* Fresh with the window one second short
Fresh_short(now, ts) == now - ts < CACHE_EXPIRATION - 1

\* Fresh with the bound included
Fresh_inclusive(now, ts) == now - ts <= CACHE_EXPIRATION

\* now - ts < CACHE_EXPIRATION
Fresh(now, ts) == now - ts < CACHE_EXPIRATION

\* key in cache, and the entry is fresh
Hit(c, key, now) == key \in DOMAIN c /\ Fresh(now, c[key][1])

\* Store that keeps the timestamp of the entry it replaces
Store_keeps_ts(c, key, now, data) ==
    [k \in DOMAIN c \cup {key} |->
        IF k = key THEN <<IF key \in DOMAIN c THEN c[key][1] ELSE now, data>>
        ELSE c[k]]

\* Store that keeps the payload of the entry it replaces
Store_keeps_data(c, key, now, data) ==
    [k \in DOMAIN c \cup {key} |->
        IF k = key THEN <<now, IF key \in DOMAIN c THEN c[key][2] ELSE data>>
        ELSE c[k]]

\* cache[key] = (now, data)
Store(c, key, now, data) ==
    [k \in DOMAIN c \cup {key} |-> IF k = key THEN <<now, data>> ELSE c[k]]

URL(sport_slug, league_slug, team_id) ==
    "https://site.api.espn.com/apis/site/v2/sports/" \o FmtStr(sport_slug)
        \o "/" \o FmtStr(league_slug) \o "/teams/" \o FmtInt(team_id)

\* fetch_team_data that reports a provider failure as not found
fetch_team_data_404(sport_slug, league_slug, team_id, up) ==
    IF up.ok THEN Return(up.json)
    ELSE HTTPException(404, "Error fetching ESPN data")

\* fetch_team_data that falls back to an empty payload when the provider fails
fetch_team_data_lenient(sport_slug, league_slug, team_id, up) ==
    IF up.ok THEN Return(up.json) ELSE Return(P_empty)

\* requests.get(url), raise_for_status(), resp.json(): `up` is what the
\* provider answers.
fetch_team_data(sport_slug, league_slug, team_id, up) ==
    IF up.ok THEN Return(up.json)
    ELSE HTTPException(500, "Error fetching ESPN data")

\* The record of one call of get_cached_team_data: its league_slug and
\* team_slug arguments, its key, the age of the entry it found under the key
\* (None when the key was not in the cache) and the requests it sent to the
\* provider, each with the provider's answer.
Call(c, league_slug, team_slug, key, now, sent) ==
    [league |-> league_slug, slug |-> team_slug, key |-> key,
     age |-> IF key \in DOMAIN c THEN Some(now - c[key][1]) ELSE None,
     sent |-> sent]

\* get_cached_team_data that drops the entry of the key when the fetch fails
get_cached_team_data_evict(c, now, sport_slug, league_slug, team_slug, team_id, up) ==
    LET key == CacheKey(league_slug, team_slug)
        sent == <<[url |-> URL(sport_slug, league_slug, team_id), up |-> up]>>
        f == fetch_team_data(sport_slug, league_slug, team_id, up)
    IN  IF Hit(c, key, now)
        THEN [res |-> Return(c[key][2]), cache |-> c,
              calls |-> <<Call(c, league_slug, team_slug, key, now, <<>>)>>]
        ELSE IF f.raised
        THEN [res |-> f, cache |-> [k \in DOMAIN c \ {key} |-> c[k]],
              calls |-> <<Call(c, league_slug, team_slug, key, now, sent)>>]
        ELSE [res |-> Return(f.value), cache |-> Store(c, key, now, f.value),
              calls |-> <<Call(c, league_slug, team_slug, key, now, sent)>>]

\* get_cached_team_data whose hit stamps the entry with the time of the read
get_cached_team_data_sliding(c, now, sport_slug, league_slug, team_slug, team_id, up) ==
    LET key == CacheKey(league_slug, team_slug)
        sent == <<[url |-> URL(sport_slug, league_slug, team_id), up |-> up]>>
        f == fetch_team_data(sport_slug, league_slug, team_id, up)
    IN  IF Hit(c, key, now)
        THEN [res |-> Return(c[key][2]), cache |-> Store(c, key, now, c[key][2]),
              calls |-> <<Call(c, league_slug, team_slug, key, now, <<>>)>>]
        ELSE IF f.raised
        THEN [res |-> f, cache |-> c,
              calls |-> <<Call(c, league_slug, team_slug, key, now, sent)>>]
        ELSE [res |-> Return(f.value), cache |-> Store(c, key, now, f.value),
              calls |-> <<Call(c, league_slug, team_slug, key, now, sent)>>]

\* The outcome of a call (res), the cache after it, and the record of the
\* call (calls).
get_cached_team_data(c, now, sport_slug, league_slug, team_slug, team_id, up) ==
    LET key == CacheKey(league_slug, team_slug)
        sent == <<[url |-> URL(sport_slug, league_slug, team_id), up |-> up]>>
        f == fetch_team_data(sport_slug, league_slug, team_id, up)
    IN  IF Hit(c, key, now)
        THEN [res |-> Return(c[key][2]), cache |-> c,
              calls |-> <<Call(c, league_slug, team_slug, key, now, <<>>)>>]
        ELSE IF f.raised
        THEN [res |-> f, cache |-> c,
              calls |-> <<Call(c, league_slug, team_slug, key, now, sent)>>]
        ELSE [res |-> Return(f.value), cache |-> Store(c, key, now, f.value),
              calls |-> <<Call(c, league_slug, team_slug, key, now, sent)>>]

-----------------------------------------------------------------------------
(* Resolver *)

\* the least index of m, 0 when m is empty: the first iteration of a `for`
\* loop whose body is entered, every path of the body leaving the function
First(m) == IF m = {} THEN 0 ELSE CHOOSE i \in m : \A j \in m : i <= j

\* find_sport_slug that prefers the generic sport to the sport path
find_sport_slug_generic(league_slug) ==
    LET i == First({j \in DOMAIN ConfigLeagues :
                       Get(ConfigLeagues[j], "league") = league_slug})
    IN  IF i = 0 THEN None
        ELSE OrStr(Get(ConfigLeagues[i], "sport"), Get(ConfigLeagues[i], "sport_path"))

find_sport_slug(league_slug) ==
    LET i == First({j \in DOMAIN ConfigLeagues :
                       Get(ConfigLeagues[j], "league") = league_slug})
    IN  IF i = 0 THEN None
        ELSE OrStr(Get(ConfigLeagues[i], "sport_path"), Get(ConfigLeagues[i], "sport"))

\* a call that ends by raising e before it reaches the cache
Raised(c, e) == [res |-> e, cache |-> c, calls |-> <<>>]

\* api_team that fetches for a pair the configuration does not hold
api_team_unchecked(c, now, team_slug, league_slug, up) ==
    LET i == First({j \in DOMAIN Teams :
                       /\ Get(Teams[j], "espn_slug") = Some(team_slug)
                       /\ Get(Teams[j], "league") = Some(league_slug)})
        team_id == IF i = 0 THEN Some(1) ELSE Get(Teams[i], "espn_id")
        sport_slug == find_sport_slug(Some(league_slug))
    IN  IF NotInt(team_id)
        THEN Raised(c, HTTPException(404, "Team ESPN ID not found in config"))
        ELSE IF NotStr(sport_slug)
        THEN Raised(c, HTTPException(404, "Sport slug not found in config"))
        ELSE get_cached_team_data(c, now, sport_slug, Some(league_slug),
                                  Some(team_slug), team_id, up)

\* api_team that takes the last team that matches, not the first
api_team_last(c, now, team_slug, league_slug, up) ==
    LET m == {j \in DOMAIN Teams :
                 /\ Get(Teams[j], "espn_slug") = Some(team_slug)
                 /\ Get(Teams[j], "league") = Some(league_slug)}
        i == IF m = {} THEN 0 ELSE CHOOSE j \in m : \A k \in m : k <= j
        team_id == Get(Teams[i], "espn_id")
        sport_slug == find_sport_slug(Some(league_slug))
    IN  IF i = 0
        THEN Raised(c, HTTPException(404, "Team or league not found in config"))
        ELSE IF NotInt(team_id)
        THEN Raised(c, HTTPException(404, "Team ESPN ID not found in config"))
        ELSE IF NotStr(sport_slug)
        THEN Raised(c, HTTPException(404, "Sport slug not found in config"))
        ELSE get_cached_team_data(c, now, sport_slug, Some(league_slug),
                                  Some(team_slug), team_id, up)

\* GET /api/espn/team/{team_slug}/{league_slug}
api_team(c, now, team_slug, league_slug, up) ==
    LET i == First({j \in DOMAIN Teams :
                       /\ Get(Teams[j], "espn_slug") = Some(team_slug)
                       /\ Get(Teams[j], "league") = Some(league_slug)})
        team_id == Get(Teams[i], "espn_id")
        sport_slug == find_sport_slug(Some(league_slug))
    IN  IF i = 0
        THEN Raised(c, HTTPException(404, "Team or league not found in config"))
        ELSE IF NotInt(team_id)
        THEN Raised(c, HTTPException(404, "Team ESPN ID not found in config"))
        ELSE IF NotStr(sport_slug)
        THEN Raised(c, HTTPException(404, "Sport slug not found in config"))
        ELSE get_cached_team_data(c, now, sport_slug, Some(league_slug),
                                  Some(team_slug), team_id, up)

\* api_team_no_league that passes over the teams it cannot resolve
api_team_no_league_skip(c, now, team_slug, up) ==
    LET i == First({j \in DOMAIN Teams :
                       /\ Get(Teams[j], "espn_slug") = Some(team_slug)
                       /\ ~NotInt(Get(Teams[j], "espn_id"))
                       /\ ~NotStr(Get(Teams[j], "league"))})
        team_id == Get(Teams[i], "espn_id")
        league_slug == Get(Teams[i], "league")
        sport_slug == find_sport_slug(league_slug)
    IN  IF i = 0
        THEN Raised(c, HTTPException(404, "Team not found in config"))
        ELSE IF NotStr(sport_slug)
        THEN Raised(c, HTTPException(404, "Sport slug not found in config"))
        ELSE get_cached_team_data(c, now, sport_slug, league_slug,
                                  Some(team_slug), team_id, up)

\* GET /api/espn/team/{team_slug}
api_team_no_league(c, now, team_slug, up) ==
    LET i == First({j \in DOMAIN Teams : Get(Teams[j], "espn_slug") = Some(team_slug)})
        team_id == Get(Teams[i], "espn_id")
        league_slug == Get(Teams[i], "league")
        sport_slug == find_sport_slug(league_slug)
    IN  IF i = 0
        THEN Raised(c, HTTPException(404, "Team not found in config"))
        ELSE IF NotInt(team_id) \/ NotStr(league_slug)
        THEN Raised(c, HTTPException(404, "Team ESPN ID or league not found in config"))
        ELSE IF NotStr(sport_slug)
        THEN Raised(c, HTTPException(404, "Sport slug not found in config"))
        ELSE get_cached_team_data(c, now, sport_slug, league_slug,
                                  Some(team_slug), team_id, up)

-----------------------------------------------------------------------------
(* Projections *)

\* j.get(k, default) on a JSON object
JGet(j, k, default) == IF k \in DOMAIN j.obj THEN j.obj[k] ELSE default

\* bool(j)
JTruthy(j) ==
    \/ IsList(j) /\ j.list # <<>>
    \/ IsObj(j) /\ DOMAIN j.obj # {}
    \/ "str" \in DOMAIN j /\ j.str # ""

\* data.get("team", {}).get("nextEvent", []), as {"fixtures": fixtures}
Fixtures(data) ==
    IF ~IsObj(data) THEN Unhandled("AttributeError")
    ELSE LET team == JGet(data, "team", JObj(<<>>))
         IN  IF ~IsObj(team) THEN Unhandled("AttributeError")
             ELSE Return([fixtures |-> JGet(team, "nextEvent", JList(<<>>))])

\* logos = team_data.get("team", {}).get("logos", [])
\* logos[0].get("href") if logos else None
Logo(team_data) ==
    IF ~IsObj(team_data) THEN Unhandled("AttributeError")
    ELSE LET team == JGet(team_data, "team", JObj(<<>>))
         IN  IF ~IsObj(team) THEN Unhandled("AttributeError")
             ELSE LET logos == JGet(team, "logos", JList(<<>>))
                  IN  IF ~JTruthy(logos) THEN Return(JNull)
                      ELSE IF ~IsList(logos) THEN Unhandled("KeyError")
                      ELSE IF ~IsObj(logos.list[1]) THEN Unhandled("AttributeError")
                      ELSE Return(JGet(logos.list[1], "href", JNull))

\* GET /api/espn/fixtures/{team_slug}/{league_slug}
api_fixtures(c, now, team_slug, league_slug, up) ==
    LET i == First({j \in DOMAIN Teams :
                       /\ Get(Teams[j], "espn_slug") = Some(team_slug)
                       /\ Get(Teams[j], "league") = Some(league_slug)})
        team_id == Get(Teams[i], "espn_id")
        sport_slug == find_sport_slug(Some(league_slug))
        g == get_cached_team_data(c, now, sport_slug, Some(league_slug),
                                  Some(team_slug), team_id, up)
    IN  IF i = 0
        THEN Raised(c, HTTPException(404, "Team or league not found in config"))
        ELSE IF NotInt(team_id)
        THEN Raised(c, HTTPException(404, "Team ESPN ID not found in config"))
        ELSE IF NotStr(sport_slug)
        THEN Raised(c, HTTPException(404, "Sport slug not found in config"))
        ELSE IF g.res.raised THEN g
        ELSE [res |-> Fixtures(g.res.value), cache |-> g.cache, calls |-> g.calls]

\* one row of the listing
Row(team_info, logo_url) ==
    [name |-> Get(team_info, "name"), league |-> Get(team_info, "league"),
     espn_slug |-> Get(team_info, "espn_slug"), logo |-> logo_url]

\* all_teams_from that ends the listing at the first team that fails
RECURSIVE all_teams_abort(_, _, _, _, _, _)
all_teams_abort(i, c, now, ups, results, calls) ==
    IF i > Len(Teams)
    THEN [res |-> Return([rows |-> results]), cache |-> c, calls |-> calls]
    ELSE LET team_info == Teams[i]
             sport_slug == find_sport_slug(Get(team_info, "league"))
             g == get_cached_team_data(c, now, sport_slug, Get(team_info, "league"),
                                       Get(team_info, "espn_slug"),
                                       Get(team_info, "espn_id"), ups[i])
             logo == Logo(g.res.value)
         IN  IF NotStr(sport_slug)
             THEN all_teams_abort(i + 1, c, now, ups, results, calls)
             ELSE IF g.res.raised \/ logo.raised
             THEN [res |-> Return([rows |-> results]), cache |-> g.cache,
                   calls |-> calls \o g.calls]
             ELSE all_teams_abort(i + 1, g.cache, now, ups,
                                  Append(results, Row(team_info, logo.value)),
                                  calls \o g.calls)

\* all_teams_from that passes the slug for the league and the league for the
\* slug to get_cached_team_data
RECURSIVE all_teams_swapped(_, _, _, _, _, _)
all_teams_swapped(i, c, now, ups, results, calls) ==
    IF i > Len(Teams)
    THEN [res |-> Return([rows |-> results]), cache |-> c, calls |-> calls]
    ELSE LET team_info == Teams[i]
             sport_slug == find_sport_slug(Get(team_info, "league"))
             g == get_cached_team_data(c, now, sport_slug, Get(team_info, "espn_slug"),
                                       Get(team_info, "league"),
                                       Get(team_info, "espn_id"), ups[i])
             logo == Logo(g.res.value)
         IN  IF NotStr(sport_slug)
             THEN all_teams_swapped(i + 1, c, now, ups, results, calls)
             ELSE IF g.res.raised \/ logo.raised
             THEN all_teams_swapped(i + 1, g.cache, now, ups, results, calls \o g.calls)
             ELSE all_teams_swapped(i + 1, g.cache, now, ups,
                                    Append(results, Row(team_info, logo.value)),
                                    calls \o g.calls)

\* The loop of get_all_teams from team i on: c, results and calls are the
\* cache, the rows and the calls of get_cached_team_data so far; ups[i] is
\* what the provider answers if team i is fetched.
RECURSIVE all_teams_from(_, _, _, _, _, _)
all_teams_from(i, c, now, ups, results, calls) ==
    IF i > Len(Teams)
    THEN [res |-> Return([rows |-> results]), cache |-> c, calls |-> calls]
    ELSE LET team_info == Teams[i]
             sport_slug == find_sport_slug(Get(team_info, "league"))
             g == get_cached_team_data(c, now, sport_slug, Get(team_info, "league"),
                                       Get(team_info, "espn_slug"),
                                       Get(team_info, "espn_id"), ups[i])
             logo == Logo(g.res.value)
         IN  IF NotStr(sport_slug)
             THEN all_teams_from(i + 1, c, now, ups, results, calls)
             ELSE IF g.res.raised \/ logo.raised
             THEN all_teams_from(i + 1, g.cache, now, ups, results, calls \o g.calls)
             ELSE all_teams_from(i + 1, g.cache, now, ups,
                                 Append(results, Row(team_info, logo.value)),
                                 calls \o g.calls)

\* GET /api/teams
get_all_teams(c, now, ups) == all_teams_from(1, c, now, ups, <<>>, <<>>)

-----------------------------------------------------------------------------
(* The state machine: one action per endpoint, and the passing of time.     *)
(* A request is served at one reading of the clock.                         *)

\* how many times the clock may advance
MaxTicks == 1

\* the steps of the clock: just short of the expiry, and exactly the expiry
Ticks == {CACHE_EXPIRATION - 1, CACHE_EXPIRATION}

NoRequest ==
    [op |-> "none", team_slug |-> None, league_slug |-> None,
     status |-> 0, body |-> JNull, calls |-> <<>>]

\* The provider's possible answers to a request that ends as r does with a
\* failing provider: that answer matters only if the provider is asked.
Answers(r) ==
    IF \A i \in DOMAIN r.calls : r.calls[i].sent = <<>> THEN {UpFail} ELSE Upstream

\* a call whose fetch succeeded, and one whose fetch failed
FetchedOk(call) == call.sent # <<>> /\ call.sent[1].up.ok

FetchFailed(call) == call.sent # <<>> /\ ~call.sent[1].up.ok

\* origin after the calls: a successful fetch stores its entry
RECURSIVE OriginAfter(_, _)
OriginAfter(o, calls) ==
    IF calls = <<>> THEN o
    ELSE LET call == Head(calls)
             by == [league |-> call.league, slug |-> call.slug,
                    url |-> call.sent[1].url]
         IN  OriginAfter(IF FetchedOk(call)
                         THEN [k \in DOMAIN o \cup {call.key} |->
                                  IF k = call.key THEN by ELSE o[k]]
                         ELSE o,
                         Tail(calls))

\* failed after the calls: the keys whose latest call ended with a failed fetch
RECURSIVE FailedAfter(_, _)
FailedAfter(f, calls) ==
    IF calls = <<>> THEN f
    ELSE FailedAfter(IF FetchFailed(Head(calls))
                     THEN f \cup {Head(calls).key}
                     ELSE f \ {Head(calls).key},
                     Tail(calls))

\* The handler leaves the cache as r.cache and answers r.res.
Serve(op, team_slug, league_slug, r) ==
    /\ cache' = r.cache
    /\ origin' = OriginAfter(origin, r.calls)
    /\ failed' = FailedAfter(failed, r.calls)
    /\ last' = [op |-> op, team_slug |-> team_slug, league_slug |-> league_slug,
                status |-> r.res.status_code, body |-> r.res.value,
                calls |-> r.calls]
    /\ UNCHANGED <<config, clock, callers, writer>>

\* the threads of the server's pool that run get_cached_team_data step by step
Callers == {"a", "b"}

\* a thread that is not inside get_cached_team_data
Idle == [pc |-> "idle"]

Init ==
    /\ config \in DOMAIN ConfigFiles
    /\ cache = <<>>
    /\ clock = 0
    /\ last = NoRequest
    /\ origin = <<>>
    /\ failed = {}
    /\ callers = [p \in Callers |-> Idle]
    /\ writer = <<>>

ApiTeam ==
    \E team_slug \in Slugs, league_slug \in LeagueSlugs :
        \E up \in Answers(api_team(cache, clock, team_slug, league_slug, UpFail)) :
            Serve("api_team", Some(team_slug), Some(league_slug),
                  api_team(cache, clock, team_slug, league_slug, up))

ApiTeamNoLeague ==
    \E team_slug \in Slugs :
        \E up \in Answers(api_team_no_league(cache, clock, team_slug, UpFail)) :
            Serve("api_team_no_league", Some(team_slug), None,
                  api_team_no_league(cache, clock, team_slug, up))

ApiFixtures ==
    \E team_slug \in Slugs, league_slug \in LeagueSlugs :
        \E up \in Answers(api_fixtures(cache, clock, team_slug, league_slug, UpFail)) :
            Serve("api_fixtures", Some(team_slug), Some(league_slug),
                  api_fixtures(cache, clock, team_slug, league_slug, up))

\* The teams the listing may have to fetch: those whose sport slug is found
\* and whose key has no fresh entry when the request starts.
MayFetch(i) ==
    /\ ~NotStr(find_sport_slug(Get(Teams[i], "league")))
    /\ ~Hit(cache, CacheKey(Get(Teams[i], "league"), Get(Teams[i], "espn_slug")), clock)

\* The provider's possible answers to the fetches of teams i.. of one listing
RECURSIVE ListingAnswers(_)
ListingAnswers(i) ==
    IF i > Len(Teams) THEN {<<>>}
    ELSE {<<up>> \o rest : up \in (IF MayFetch(i) THEN Upstream ELSE {UpFail}),
                           rest \in ListingAnswers(i + 1)}

GetAllTeams ==
    \E ups \in ListingAnswers(1) :
        Serve("get_all_teams", None, None, get_all_teams(cache, clock, ups))

\* time.time() moves on between two requests
Tick ==
    \E d \in Ticks :
        /\ clock + d <= MaxTicks * CACHE_EXPIRATION
        /\ clock' = clock + d
        /\ last' = NoRequest
        /\ UNCHANGED <<config, cache, origin, failed, callers, writer>>

Next == ApiTeam \/ ApiTeamNoLeague \/ ApiFixtures \/ GetAllTeams \/ Tick

Spec == Init /\ [][Next]_vars

-----------------------------------------------------------------------------
(* get_cached_team_data step by step: the endpoints are plain functions,    *)
(* which the server runs in the threads of a pool, so calls overlap. A step  *)
(* is a statement; a dict lookup or assignment is one step under the        *)
(* interpreter lock. callers[p] holds the locals of thread p, and writer[k] *)
(* tells which thread stored the entry under k and whether that store       *)
(* replaced an entry that was fresh at the storing call's reading of the    *)
(* clock.                                                                    *)

\* the configuration under which the overlapping calls are explored
ConcConfig == 4

\* the teams an endpoint passes to get_cached_team_data
Passed ==
    {i \in DOMAIN Teams :
        /\ ~NotInt(Get(Teams[i], "espn_id"))
        /\ ~NotStr(Get(Teams[i], "league"))
        /\ ~NotStr(find_sport_slug(Get(Teams[i], "league")))}

ConcInit ==
    /\ config = ConcConfig
    /\ cache = <<>>
    /\ clock = 0
    /\ last = NoRequest
    /\ origin = <<>>
    /\ failed = {}
    /\ callers = [p \in Callers |-> Idle]
    /\ writer = <<>>

\* thread p moves to the locals l
Step(p, l) == callers' = [callers EXCEPT ![p] = l]

\* line 40: the call starts and builds its key
Begin(p) ==
    \E i \in Passed :
        /\ callers[p].pc = "idle"
        /\ Step(p, [pc |-> "clock", team |-> i,
                    key |-> CacheKey(Get(Teams[i], "league"),
                                     Get(Teams[i], "espn_slug"))])
        /\ UNCHANGED <<config, cache, clock, last, origin, failed, writer>>

\* line 41: now = time.time()
ReadClock(p) ==
    /\ callers[p].pc = "clock"
    /\ Step(p, [pc |-> "check", team |-> callers[p].team, key |-> callers[p].key,
                now |-> clock])
    /\ UNCHANGED <<config, cache, clock, last, origin, failed, writer>>

\* lines 42-45: a fresh entry is returned, else the call goes on to fetch
Check(p) ==
    /\ callers[p].pc = "check"
    /\ IF Hit(cache, callers[p].key, callers[p].now)
       THEN Step(p, Idle)
       ELSE Step(p, [callers[p] EXCEPT !.pc = "fetch"])
    /\ UNCHANGED <<config, cache, clock, last, origin, failed, writer>>

\* line 47: the fetch returns the payload or raises
Fetch(p) ==
    /\ callers[p].pc = "fetch"
    /\ \E up \in Upstream :
          LET t == Teams[callers[p].team]
              f == fetch_team_data(find_sport_slug(Get(t, "league")),
                                   Get(t, "league"), Get(t, "espn_id"), up)
          IN  IF f.raised
              THEN Step(p, Idle)
              ELSE Step(p, [pc |-> "store", team |-> callers[p].team,
                            key |-> callers[p].key, now |-> callers[p].now,
                            data |-> f.value])
    /\ UNCHANGED <<config, cache, clock, last, origin, failed, writer>>

\* lines 48-49: cache[key] = (now, data), and the call returns
StoreEntry(p) ==
    LET l == callers[p]
    IN  /\ l.pc = "store"
        /\ cache' = Store(cache, l.key, l.now, l.data)
        /\ writer' = [k \in DOMAIN writer \cup {l.key} |->
                         IF k = l.key
                         THEN [by |-> p, raced |-> Hit(cache, l.key, l.now)]
                         ELSE writer[k]]
        /\ Step(p, Idle)
        /\ UNCHANGED <<config, clock, last, origin, failed>>

ConcNext ==
    \/ \E p \in Callers : Begin(p)
    \/ \E p \in Callers : ReadClock(p)
    \/ \E p \in Callers : Check(p)
    \/ \E p \in Callers : Fetch(p)
    \/ \E p \in Callers : StoreEntry(p)
    \/ Tick

ConcSpec == ConcInit /\ [][ConcNext]_vars

-----------------------------------------------------------------------------
(* Properties *)

\* the freshness window, in seconds
FRESHNESS_WINDOW == 3600

SingleOps == {"api_team", "api_team_no_league", "api_fixtures"}

\* the endpoints that answer the whole payload
PayloadOps == {"api_team", "api_team_no_league"}

\* the number of requests sent to the provider by the calls
RECURSIVE FetchCount(_)
FetchCount(calls) ==
    IF calls = <<>> THEN 0 ELSE Len(Head(calls).sent) + FetchCount(Tail(calls))

\* what an endpoint answers when get_cached_team_data returns data
Answer(op, data) ==
    IF op = "api_fixtures" THEN Fixtures(data) ELSE Return(data)

\* C1 (Freshness): a call of get_cached_team_data made while the entry stored
\* under its key is less than 3600 s old sends nothing to the provider, and
\* the endpoint answers from the payload of that entry.
C1_Freshness ==
    [][\A i \in DOMAIN last'.calls :
          LET call == last'.calls[i]
              K == call.key
          IN  /\ (call.age # None /\ call.age[1] < FRESHNESS_WINDOW)
                    => call.sent = <<>>
              /\ (/\ last'.op \in SingleOps
                  /\ K \in DOMAIN cache
                  /\ clock - cache[K][1] < FRESHNESS_WINDOW)
                    => /\ call.sent = <<>>
                       /\ FetchCount(last'.calls) = 0
                       /\ last'.status = Answer(last'.op, cache[K][2]).status_code
                       /\ last'.body = Answer(last'.op, cache[K][2]).value]_vars

\* C1 witness: the payload stored 3599 s earlier was served without a fetch.
C1_Witness ==
    /\ last.op = "api_team"
    /\ last.status = 200
    /\ Len(last.calls) = 1
    /\ last.calls[1].age = Some(FRESHNESS_WINDOW - 1)
    /\ last.calls[1].sent = <<>>
    /\ last.body = cache[last.calls[1].key][2]

\* C2 (No stale serve): a call that finds an entry of age >= 3600 s, the age
\* of exactly 3600 s included, asks the provider, and the endpoint answers
\* from the provider's answer or with the failure, not from the stored entry.
C2_NoStaleServe ==
    [][\A i \in DOMAIN last'.calls :
          LET call == last'.calls[i]
              K == call.key
          IN  /\ (call.age # None /\ call.age[1] >= FRESHNESS_WINDOW)
                    => Len(call.sent) = 1
              /\ (/\ last'.op \in SingleOps
                  /\ K \in DOMAIN cache
                  /\ clock - cache[K][1] >= FRESHNESS_WINDOW)
                    => /\ Len(call.sent) = 1
                       /\ call.sent[1].up.ok =>
                             /\ last'.status =
                                   Answer(last'.op, call.sent[1].up.json).status_code
                             /\ last'.body = Answer(last'.op, call.sent[1].up.json).value
                       /\ ~call.sent[1].up.ok => last'.status = 500]_vars

\* C2 witness: an entry exactly 3600 s old was found, the provider was asked
\* and its answer was returned.
C2_Witness ==
    /\ last.op = "api_team"
    /\ Len(last.calls) = 1
    /\ last.calls[1].age = Some(FRESHNESS_WINDOW)
    /\ Len(last.calls[1].sent) = 1
    /\ last.calls[1].sent[1].up.ok
    /\ last.body = last.calls[1].sent[1].up.json

\* C3 (Expiry triggers refetch): a call that finds no entry, or one of age
\* >= 3600 s, asks the provider exactly once; when the provider answers, the
\* entry of the key becomes (now, payload) whatever the payload, the other
\* entries stay, and the payload is what the endpoint answers from.
C3_ExpiryRefetch ==
    [][\A i \in DOMAIN last'.calls :
          LET call == last'.calls[i]
              K == call.key
          IN  /\ (call.age = None \/ call.age[1] >= FRESHNESS_WINDOW)
                    => /\ Len(call.sent) = 1
                       /\ call.sent[1].up.ok =>
                             /\ K \in DOMAIN cache'
                             /\ cache'[K] = <<clock, call.sent[1].up.json>>
              /\ (/\ last'.op \in SingleOps
                  /\ K \notin DOMAIN cache \/ clock - cache[K][1] >= FRESHNESS_WINDOW)
                    => /\ FetchCount(last'.calls) = 1
                       /\ call.sent[1].up.ok =>
                             /\ DOMAIN cache' = DOMAIN cache \cup {K}
                             /\ \A k \in DOMAIN cache : k # K => cache'[k] = cache[k]
                             /\ cache'[K] = <<clock, call.sent[1].up.json>>
                             /\ last'.body = Answer(last'.op, call.sent[1].up.json).value]_vars

\* C3 witness: an entry 3600 s old was replaced by (now, {}) and {} returned.
C3_Witness ==
    /\ last.op = "api_team_no_league"
    /\ last.status = 200
    /\ Len(last.calls) = 1
    /\ last.calls[1].age = Some(FRESHNESS_WINDOW)
    /\ FetchCount(last.calls) = 1
    /\ last.calls[1].sent[1].up = [ok |-> TRUE, json |-> P_empty]
    /\ cache[last.calls[1].key] = <<clock, P_empty>>
    /\ last.body = P_empty

\* C4 (Failed refresh): when the provider fails, a single-team request ends
\* with the failure and leaves the whole cache as it was; and the first call
\* for a key after a call for it whose fetch failed asks the provider again.
C4_FailedRefresh ==
    [][/\ \A i \in DOMAIN last'.calls :
            (last'.op \in SingleOps /\ FetchFailed(last'.calls[i]))
                => /\ last'.status = 500
                   /\ "detail" \in DOMAIN last'.body
                   /\ cache' = cache
       /\ (\A i \in DOMAIN last'.calls : ~FetchedOk(last'.calls[i]))
                => cache' = cache
       /\ \A i \in DOMAIN last'.calls :
            (/\ last'.calls[i].key \in failed
             /\ \A j \in 1..(i - 1) : last'.calls[j].key # last'.calls[i].key)
                => Len(last'.calls[i].sent) = 1]_vars

\* C4 witness: a refresh of an entry at least 3600 s old failed, the request
\* ended with the failure and the entry is still there.
C4_Witness ==
    /\ last.op = "api_team"
    /\ last.status = 500
    /\ Len(last.calls) = 1
    /\ FetchFailed(last.calls[1])
    /\ last.calls[1].age = Some(FRESHNESS_WINDOW)
    /\ last.calls[1].key \in DOMAIN cache
    /\ clock - cache[last.calls[1].key][1] = FRESHNESS_WINDOW
    /\ last.calls[1].key \in failed

\* C5 (Key independence): a call never finds under its key an entry that a
\* call for another (league, team slug) pair stored: the keys of two pairs
\* that differ are different, so neither reads nor overwrites the other's
\* entry.
C5_KeyIndependence ==
    [][\A i \in DOMAIN last'.calls :
          LET call == last'.calls[i]
          IN  (call.age # None /\ call.key \in DOMAIN origin)
                 => /\ origin[call.key].league = call.league
                    /\ origin[call.key].slug = call.slug]_vars

\* The configured teams a single-team request matches: those with its slug
\* and, when the request names a league, with that league.
Matching(req) ==
    {i \in DOMAIN Teams :
        /\ "espn_slug" \in DOMAIN Teams[i]
        /\ <<Teams[i].espn_slug>> = req.team_slug
        /\ req.op # "api_team_no_league"
              => ("league" \in DOMAIN Teams[i] /\ <<Teams[i].league>> = req.league_slug)}

\* The team a request resolves to: the first that matches, in the order of
\* the configuration.
Matched(req) == Teams[CHOOSE i \in Matching(req) : \A j \in Matching(req) : i <= j]

\* team t has a provider id that is not zero
HasProviderId(t) == "espn_id" \in DOMAIN t /\ t.espn_id # 0

\* the sport path of league L is configured: its entry has a sport_path or,
\* failing that, a sport
HasSportPath(L) ==
    \E j \in DOMAIN ConfigLeagues :
        LET e == ConfigLeagues[j]
        IN  /\ "league" \in DOMAIN e /\ e.league = L
            /\ \/ "sport_path" \in DOMAIN e /\ e.sport_path # ""
               \/ "sport" \in DOMAIN e /\ e.sport # ""

\* A single-team request that cannot be resolved from the configuration.
ConfigFailure(req) ==
    \/ Matching(req) = {}
    \/ ~HasProviderId(Matched(req))
    \/ "league" \notin DOMAIN Matched(req)
    \/ ~HasSportPath(Matched(req).league)

\* C6 (Resolver configuration failures): a single-team request that matches
\* no configured team, or whose team has no provider id or the id zero, or
\* whose league has no sport path, ends with 404 and a detail message, makes
\* no call of get_cached_team_data (so no fetch) and leaves the cache as it
\* was.
C6_ConfigFailures ==
    [][(last'.op \in SingleOps /\ ConfigFailure(last'))
          => /\ last'.status = 404
             /\ "detail" \in DOMAIN last'.body
             /\ last'.calls = <<>>
             /\ cache' = cache]_vars

\* C6 witness: with an entry in the cache, a request for a configured team
\* whose provider id is zero or absent ended with 404.
C6_Witness ==
    /\ last.op \in SingleOps
    /\ Matching(last) # {}
    /\ ~HasProviderId(Matched(last))
    /\ last.status = 404
    /\ cache # <<>>

\* C7 (Error kinds kept apart): on the single-team endpoints a configuration
\* failure ends with 404 and a provider failure with 500; a 404 comes with no
\* request to the provider, a 200 with neither failure, and no request sends
\* more than one request to the provider.
C7_ErrorKinds ==
    last.op \in SingleOps =>
        /\ ConfigFailure(last) => last.status = 404
        /\ (\E i \in DOMAIN last.calls : FetchFailed(last.calls[i])) => last.status = 500
        /\ last.status = 404 => (ConfigFailure(last) /\ FetchCount(last.calls) = 0)
        /\ last.status = 200 =>
              /\ ~ConfigFailure(last)
              /\ \A i \in DOMAIN last.calls : ~FetchFailed(last.calls[i])
        /\ last.status \in {200, 404, 500}
        /\ FetchCount(last.calls) <= 1

\* C7 witness: the provider failed on a fixtures request of a resolvable
\* team, and the request ended with 500 after one request to the provider.
C7_Witness ==
    /\ last.op = "api_fixtures"
    /\ ~ConfigFailure(last)
    /\ FetchCount(last.calls) = 1
    /\ FetchFailed(last.calls[1])
    /\ last.status = 500

\* row r of the listing is the row of team t
RowOf(r, t) ==
    /\ r.name = Get(t, "name")
    /\ r.league = Get(t, "league")
    /\ r.espn_slug = Get(t, "espn_slug")

\* C8 (Bulk listing omits teams without a provider id): the listing succeeds
\* and holds no row of a configured team that has no provider id.
C8_NoRowWithoutId ==
    last.op = "get_all_teams" =>
        /\ last.status = 200
        /\ \A n \in DOMAIN last.body.rows : \A i \in DOMAIN Teams :
              "espn_id" \notin DOMAIN Teams[i] => ~RowOf(last.body.rows[n], Teams[i])

\* The listing resolves team t when its league has a sport path; the call of
\* get_cached_team_data for it then succeeds when it is answered from the
\* cache or by the provider.
Listable(t) == "league" \in DOMAIN t /\ HasSportPath(t.league)

CallOk(call) == call.sent = <<>> \/ FetchedOk(call)

\* the payload a successful call of the last listing returned
PayloadOf(call) ==
    IF call.sent = <<>> THEN cache[call.key][2] ELSE call.sent[1].up.json

\* The logo extraction can traverse payload p: p.team, when present, is an
\* object, and its logos, when present and not empty, is a list that starts
\* with an object.
Traversable(p) ==
    /\ IsObj(p)
    /\ "team" \in DOMAIN p.obj =>
          /\ IsObj(p.obj.team)
          /\ ("logos" \in DOMAIN p.obj.team.obj /\ JTruthy(p.obj.team.obj.logos)) =>
                /\ IsList(p.obj.team.obj.logos)
                /\ IsObj(p.obj.team.obj.logos.list[1])

\* payload.team.logos[0].href if the logos sequence is non-empty, else null
LogoUrl(p) ==
    IF /\ "team" \in DOMAIN p.obj
       /\ "logos" \in DOMAIN p.obj.team.obj
       /\ JTruthy(p.obj.team.obj.logos)
       /\ "href" \in DOMAIN p.obj.team.obj.logos.list[1].obj
    THEN p.obj.team.obj.logos.list[1].obj.href
    ELSE JNull

\* The teams (indices, in configuration order) from team i on that the last
\* listing resolved, the j-th call being the next one; with `strict`, only
\* those whose payload the logo extraction can traverse.
RECURSIVE ResolvedFrom(_, _, _)
ResolvedFrom(i, j, strict) ==
    IF i > Len(Teams) THEN <<>>
    ELSE IF ~Listable(Teams[i]) THEN ResolvedFrom(i + 1, j, strict)
    ELSE IF /\ j <= Len(last.calls)
            /\ CallOk(last.calls[j])
            /\ strict => Traversable(PayloadOf(last.calls[j]))
    THEN <<[team |-> i, call |-> j]>> \o ResolvedFrom(i + 1, j + 1, strict)
    ELSE ResolvedFrom(i + 1, j + 1, strict)

\* the number of teams the listing may resolve
NumListable == Cardinality({i \in DOMAIN Teams : Listable(Teams[i])})

Sharing == {i \in DOMAIN Teams : <<Teams[i].espn_slug>> = last.team_slug}

\* team t can be resolved without a league in the request
Resolvable(t) == HasProviderId(t) /\ "league" \in DOMAIN t /\ HasSportPath(t.league)

\* C10 (No-league disambiguation): when several configured teams share the
\* slug of a request without league, the first of them in configuration
\* order decides the outcome alone: 404 without any call when it has no
\* provider id, no league or no sport path, else one call under its league
\* and cache key, and any fetch sent for its provider id.
C10_FirstMatch ==
    (last.op = "api_team_no_league" /\ Cardinality(Sharing) >= 2) =>
        LET first == Teams[First(Sharing)]
        IN  IF ~Resolvable(first)
            THEN last.status = 404 /\ last.calls = <<>>
            ELSE /\ Len(last.calls) = 1
                 /\ last.calls[1].league = <<first.league>>
                 /\ last.calls[1].key = CacheKey(<<first.league>>, last.team_slug)
                 /\ last.calls[1].sent # <<>> =>
                       last.calls[1].sent[1].url =
                           URL(find_sport_slug(<<first.league>>), <<first.league>>,
                               <<first.espn_id>>)

\* C10 witness: the first team with the slug has no provider id or no league
\* and the request ended with 404, though a later team with the slug can be
\* resolved.
C10_Witness ==
    /\ last.op = "api_team_no_league"
    /\ Cardinality(Sharing) >= 2
    /\ ~Resolvable(Teams[First(Sharing)])
    /\ \E i \in Sharing : Resolvable(Teams[i])
    /\ last.status = 404
    /\ last.calls = <<>>

\* the league names of the configuration: of its leagues list and of its teams
LeagueNames ==
    {ConfigLeagues[j].league : j \in DOMAIN ConfigLeagues} \cup LeagueSlugs

\* The sport path the configuration gives league L: the sport_path of its
\* entry, else the sport of its entry, else nothing.
SportPath(L) ==
    LET es == {j \in DOMAIN ConfigLeagues : ConfigLeagues[j].league = L}
        e == ConfigLeagues[CHOOSE j \in es : \A k \in es : j <= k]
    IN  IF es = {} THEN <<>>
        ELSE IF "sport_path" \in DOMAIN e THEN <<e.sport_path>>
        ELSE IF "sport" \in DOMAIN e THEN <<e.sport>>
        ELSE <<>>

\* the URLs of the provider for league L under sport path sp
UrlsOf(sp, L) ==
    {URL(sp, <<L>>, Get(Teams[i], "espn_id")) : i \in DOMAIN Teams}

\* C11 (Sport-path resolution): find_sport_slug gives the sport_path of the
\* league's entry when it has one, else its sport, and None when the league
\* is not configured or its entry has neither; every endpoint calls
\* get_cached_team_data only for a league with a sport path, and every
\* request sent to the provider carries that sport path.
C11_SportPath ==
    /\ \A L \in LeagueNames : find_sport_slug(<<L>>) = SportPath(L)
    /\ find_sport_slug(<<>>) = <<>>
    /\ \A i \in DOMAIN last.calls :
          LET call == last.calls[i]
          IN  /\ call.league # <<>>
              /\ SportPath(call.league[1]) # <<>>
              /\ call.sent # <<>> =>
                    call.sent[1].url \in UrlsOf(SportPath(call.league[1]), call.league[1])

\* C11 witness: a team of epl, which has only the generic sport "soccer", was
\* fetched under that sport.
C11_Witness ==
    /\ last.op \in SingleOps
    /\ last.league_slug = <<"epl">>
    /\ Len(last.calls) = 1
    /\ FetchedOk(last.calls[1])
    /\ last.calls[1].sent[1].url \in UrlsOf(<<"soccer">>, "epl")
    /\ "sport_path" \notin DOMAIN ConfigLeagues[1]
    /\ ConfigLeagues[1].league = "epl"

\* payload.team.nextEvent when that path exists, else the empty sequence
NextEvent(p) ==
    IF /\ IsObj(p)
       /\ "team" \in DOMAIN p.obj
       /\ IsObj(p.obj.team)
       /\ "nextEvent" \in DOMAIN p.obj.team.obj
    THEN p.obj.team.obj.nextEvent
    ELSE [list |-> <<>>]

\* C12 (Fixtures projection): whenever api_fixtures obtained a payload for a
\* resolved team, from the cache or from the provider, it answers 200 with
\* {fixtures: payload.team.nextEvent} when that path exists and with
\* {fixtures: empty sequence} when it does not.
C12_FixturesProjection ==
    (/\ last.op = "api_fixtures"
     /\ Len(last.calls) = 1
     /\ CallOk(last.calls[1]))
        => /\ last.status = 200
           /\ last.body = [fixtures |-> NextEvent(PayloadOf(last.calls[1]))]

\* The key K holds an entry younger than the freshness window that was
\* stored by a fetch for the pair (league L, slug s).
FreshFor(K, L, s) ==
    /\ K \in DOMAIN cache
    /\ K \in DOMAIN origin
    /\ origin[K].league = <<L>>
    /\ origin[K].slug = <<s>>
    /\ clock - cache[K][1] < FRESHNESS_WINDOW

\* the request of endpoint op for team t
Req(op, t) ==
    [op |-> op, team_slug |-> <<t.espn_slug>>,
     league_slug |-> IF op = "api_team_no_league" THEN <<>> ELSE <<t.league>>]

\* the one call of get_cached_team_data an endpoint makes for (L, s) when it
\* is answered from the entry under K
HitOn(K, L, s) ==
    <<[league |-> <<L>>, slug |-> <<s>>, key |-> K,
       age |-> <<clock - cache[K][1]>>, sent |-> <<>>]>>

C14_WholeEntries ==
    [][/\ DOMAIN cache \subseteq DOMAIN cache'
       /\ \A p \in Callers :
             /\ (callers[p].pc = "clock" /\ callers'[p].pc = "check")
                   => callers'[p].now = clock
             /\ (callers[p].pc \in {"check", "fetch"} /\ callers'[p] # Idle)
                   => /\ callers'[p].now = callers[p].now
                      /\ callers'[p].key = callers[p].key
             /\ (callers[p].pc = "store" /\ callers'[p] # callers[p])
                   => cache' = [k \in DOMAIN cache \cup {callers[p].key} |->
                                   IF k = callers[p].key
                                   THEN <<callers[p].now, callers[p].data>>
                                   ELSE cache[k]]
       /\ \A K \in DOMAIN cache' :
             (K \notin DOMAIN cache \/ cache'[K] # cache[K]) =>
                \E p \in Callers :
                   /\ callers[p].pc = "store"
                   /\ callers[p].key = K
                   /\ callers'[p] = Idle
                   /\ cache'[K] = <<callers[p].now, callers[p].data>>
                   /\ writer'[K].by = p]_vars

\* C14 witness: two calls missed the same key at time 0 and both fetched;
\* thread a stored last, over the entry the other had just stored, and its
\* pair is the entry.
C14_Witness ==
    \E K \in DOMAIN writer :
        /\ writer[K].by = "a"
        /\ writer[K].raced
        /\ cache[K] = <<0, P_full>>
        /\ callers["b"] = Idle

\* C15 (Entries are superseded only by newer entries), under ConcSpec:
\* whenever the entry of a key is replaced, the timestamp of the new entry
\* is not less than the timestamp of the entry it replaces.
C15_TimestampMonotone ==
    [][\A K \in DOMAIN cache : cache'[K][1] >= cache[K][1]]_vars

\* C16 (Entries are never destroyed): a key that has an entry has one after
\* every step, whatever the request, the tick of the clock or the failure of
\* the provider; the set of cached keys only grows.
C16_NeverDestroyed ==
    [][DOMAIN cache \subseteq DOMAIN cache']_vars

\* C16 witness: the refresh of an expired entry failed, and the entry is
\* still in the cache.
C16_Witness ==
    /\ last.calls # <<>>
    /\ FetchFailed(last.calls[1])
    /\ last.calls[1].age # <<>>
    /\ last.calls[1].age[1] >= FRESHNESS_WINDOW
    /\ last.calls[1].key \in DOMAIN cache
    /\ clock - cache[last.calls[1].key][1] >= FRESHNESS_WINDOW

\* K is the key of the (league, espn_slug) pair of a configured team
ConfiguredKey(K) ==
    \E i \in DOMAIN Teams :
        /\ "league" \in DOMAIN Teams[i]
        /\ K = Teams[i].league \o ":" \o Teams[i].espn_slug

\* the request asks for a slug or a league no configured team has
Unconfigured(req) ==
    \/ \A i \in DOMAIN Teams : <<Teams[i].espn_slug>> # req.team_slug
    \/ /\ req.op # "api_team_no_league"
       /\ \A i \in DOMAIN Teams :
             "league" \in DOMAIN Teams[i] => <<Teams[i].league>> # req.league_slug

\* C17 (Bounded cache): after every step each key of the cache is the key of
\* a configured team's pair, so the cache holds no more entries than there
\* are configured teams; a single-team request for a slug or league that is
\* not configured leaves the cache as it was.
C17_BoundedCache ==
    [][/\ \A K \in DOMAIN cache' : ConfiguredKey(K)
       /\ Cardinality(DOMAIN cache') <= Len(Teams)
       /\ (last'.op \in SingleOps /\ Unconfigured(last'))
             => /\ cache' = cache
                /\ last'.calls = <<>>]_vars

\* C17 witness: with every team that can be fetched in the cache, a request
\* for a slug that is not configured ended with 404 and the cache holds the
\* same two entries.
C17_Witness ==
    /\ last.op \in SingleOps
    /\ last.team_slug = <<"zzz">>
    /\ last.status = 404
    /\ Cardinality(DOMAIN cache) = 2
    /\ Len(Teams) = 2

\* the URL of the provider for team t: its own provider id, its league and
\* the sport path of its league
UrlOf(t) == URL(SportPath(t.league), <<t.league>>, Get(t, "espn_id"))

\* The payload the call returned was fetched from url: by the call itself,
\* or by the fetch that stored the entry the call was answered from.
FetchedFrom(call, url) ==
    IF call.sent # <<>> THEN call.sent[1].url = url
    ELSE call.key \in DOMAIN origin /\ origin[call.key].url = url

\* C18 (Payload provenance): every payload an endpoint returns for a
\* resolved team T, or lists T's row from, was fetched from the provider
\* with T's own provider id, T's league and the sport path of T's league.
C18_Provenance ==
    /\ (last.op \in SingleOps /\ Len(last.calls) = 1 /\ CallOk(last.calls[1]))
          => FetchedFrom(last.calls[1], UrlOf(Matched(last)))
    /\ last.op = "get_all_teams" =>
          LET want == ResolvedFrom(1, 1, TRUE)
          IN  \A n \in DOMAIN want :
                 FetchedFrom(last.calls[want[n].call], UrlOf(Teams[want[n].team]))

\* Two runs of an endpoint end alike: the same status, the same payload when
\* they succeed, the same call with the same request to the provider or
\* none, and the same cache.
SameOutcome(a, b) ==
    /\ a.res.status_code = b.res.status_code
    /\ a.res.status_code = 200 => a.res.value = b.res.value
    /\ a.calls = b.calls
    /\ a.cache = b.cache

\* the least element of a set of indices that is not empty
Least(m) == CHOOSE i \in m : \A j \in m : i <= j

\* C19, as claimed (Endpoint equivalence): for every slug s that some
\* configured team with a league has, api_team_no_league(s) and api_team(s,
\* L), L the league of the first such team, end alike in the current state,
\* whatever the provider answers.
C19_Equivalence ==
    \A s \in Slugs : \A up \in Upstream :
        LET m == {i \in DOMAIN Teams :
                     Teams[i].espn_slug = s /\ "league" \in DOMAIN Teams[i]}
        IN  m # {} =>
               SameOutcome(api_team_no_league(cache, clock, s, up),
                           api_team(cache, clock, s, Teams[Least(m)].league, up))

\* C19, amended: for every slug s whose first configured team has a league
\* L, api_team_no_league(s) and api_team(s, L) end alike in the current
\* state, whatever the provider answers; when the first team with slug s has
\* no league, api_team_no_league(s) ends with 404 and no call.
C19_FirstTeamEquivalence ==
    \A s \in Slugs : \A up \in Upstream :
        LET m == {i \in DOMAIN Teams : Teams[i].espn_slug = s}
            r == api_team_no_league(cache, clock, s, up)
        IN  m # {} =>
               IF "league" \in DOMAIN Teams[Least(m)]
               THEN SameOutcome(r, api_team(cache, clock, s,
                                            Teams[Least(m)].league, up))
               ELSE r.res.status_code = 404 /\ r.calls = <<>> /\ r.cache = cache

\* C19 witness: a request without league for a slug that two leagues have
\* was answered from the cache, as api_team answers for the league of the
\* first of the two teams.
C19_Witness ==
    /\ last.op = "api_team_no_league"
    /\ last.status = 200
    /\ Cardinality(Sharing) = 2
    /\ Len(last.calls) = 1
    /\ last.calls[1].sent = <<>>
    /\ LET r == api_team(cache, clock, last.team_slug[1],
                         Teams[First(Sharing)].league, UpFail)
       IN  /\ r.res.value = last.body
           /\ r.calls = last.calls
           /\ r.res.status_code = 200

\* C20 (A cache hit changes nothing): a request whose calls are all answered
\* from the cache leaves the whole cache as it was, timestamps included; and
\* an entry a call is answered from is less than 3600 s old and, unless an
\* earlier call of the same request stored it, is the entry that was there
\* before the request, timestamp included: the window does not slide with
\* the reads.
C20_HitChangesNothing ==
    [][/\ (\A i \in DOMAIN last'.calls : last'.calls[i].sent = <<>>) => cache' = cache
       /\ \A i \in DOMAIN last'.calls :
             LET call == last'.calls[i]
             IN  call.sent = <<>> =>
                    /\ call.key \in DOMAIN cache'
                    /\ call.age = <<clock - cache'[call.key][1]>>
                    /\ clock - cache'[call.key][1] < FRESHNESS_WINDOW
                    /\ (\A j \in DOMAIN last'.calls :
                           last'.calls[j].key = call.key => last'.calls[j].sent = <<>>)
                          => /\ call.key \in DOMAIN cache
                             /\ cache'[call.key] = cache[call.key]]_vars

\* C20 witness: a request was answered from an entry stored 3599 s before,
\* and the entry still has the timestamp of its fetch.
C20_Witness ==
    /\ last.op \in PayloadOps
    /\ Len(last.calls) = 1
    /\ last.calls[1].sent = <<>>
    /\ clock = FRESHNESS_WINDOW - 1
    /\ cache[last.calls[1].key] = <<0, last.body>>

=============================================================================
